---------------------------- MODULE Spec2Model ----------------------------
(***************************************************************************)
(* Model of examples/rust/src/main.rs of oidc-loki: the token validator    *)
(* validate_token and the test functions of main that call it.             *)
(*                                                                         *)
(* A token is the sequence of its dot-free segments; the token string is   *)
(* the segments joined by '.', so <<"a","b","">> is the string "a.b." and  *)
(* <<"a">> is the string "a".  Every segment is the text that travels on   *)
(* the wire (base64), listed in Segments with the properties that decide   *)
(* whether each base64 engine decodes it and with the JSON value of the    *)
(* bytes it decodes to.                                                    *)
(***************************************************************************)
EXTENDS Integers, Sequences, FiniteSets

VARIABLES
    test,             \* main: index of the test function running (0: no harness)
    pc,               \* position in the running function
    session_id,       \* test_*: Option<String> returned by create_session
    token,            \* the token string (sequence of segments), NoToken if none
    header,           \* validate_token: header.alg after decode_header
    claims,           \* validate_token: the Claims after serde_json::from_slice
    now,              \* validate_token: the clock reading, NoneInt before it is read
    evaluated,        \* checks validate_token has evaluated in this call, in order
    result,           \* the Result<(), String> validate_token returned
    results,          \* main: the TestResults so far
    exit_code         \* main: the process exit code, NoneInt while running

vars == << test, pc, session_id, token, header, claims, now, evaluated, result,
           results, exit_code >>

---------------------------------------------------------------------------
(* Program constants *)

LOKI_URL == "http://localhost:9000"

(* The clock readings considered: 0 .. MaxTime seconds since the epoch. *)
MaxTime == 2
Times == 0 .. MaxTime

(* Option<u64> and Option<String> *)
NoneInt == [some |-> FALSE, val |-> 0]
SomeInt(v) == [some |-> TRUE, val |-> v]
NoneStr == [some |-> FALSE, val |-> ""]
SomeStr(v) == [some |-> TRUE, val |-> v]

\* no token string (a token string has at least one segment)
NoToken == << >>

---------------------------------------------------------------------------
(* JSON values, as far as Header.alg, Claims.exp and Claims.iss read them.  *)
(* A member is a scalar [t, n, s]: t = "absent" when the object has no such *)
(* key.  Keys other than alg, exp and iss are ignored by both structs and   *)
(* are not represented.                                                     *)

Absent == [t |-> "absent", n |-> 0, s |-> ""]
Null == [t |-> "null", n |-> 0, s |-> ""]
JInt(n) == [t |-> "int", n |-> n, s |-> ""]
JStr(s) == [t |-> "str", n |-> 0, s |-> s]

JObject(alg, exp, iss) ==
    [kind |-> "object", alg |-> alg, exp |-> exp, iss |-> iss, items |-> << >>]
JArray(items) ==
    [kind |-> "array", alg |-> Absent, exp |-> Absent, iss |-> Absent, items |-> items]
\* bytes that are not a JSON document at all
NotJson ==
    [kind |-> "invalid", alg |-> Absent, exp |-> Absent, iss |-> Absent, items |-> << >>]

EvilIssuer == "https://evil.example"
TrustedIssuer == "https://trusted.example"
SlashIssuer == "http://localhost:9000/"
QueryIssuer == "a?b>c"

(* A segment: its text; alphabet = which of the two base64 alphabets its    *)
(* characters fit ("common": both, "std": it holds '+' or '/', "url": it    *)
(* holds '-' or '_', "bad": neither); padding = "none" when its length is a *)
(* multiple of 4 without '=', "padded" when it ends in the '=' its length   *)
(* needs, "unpadded" when that '=' is left out; json = the decoded bytes.   *)
Seg(text, alphabet, padding, json) ==
    [text |-> text, alphabet |-> alphabet, padding |-> padding, json |-> json]

HeaderSegments == {
    \* {"alg":"RS256"}
    Seg("eyJhbGciOiJSUzI1NiJ9", "common", "none", JObject(JStr("RS256"), Absent, Absent)),
    \* {"alg":"ES256","typ":"JWT"}
    Seg("eyJhbGciOiJFUzI1NiIsInR5cCI6IkpXVCJ9", "common", "none",
        JObject(JStr("ES256"), Absent, Absent)),
    \* {"alg":"HS256"}
    Seg("eyJhbGciOiJIUzI1NiJ9", "common", "none", JObject(JStr("HS256"), Absent, Absent)),
    \* {"alg":"HS384"}
    Seg("eyJhbGciOiJIUzM4NCJ9", "common", "none", JObject(JStr("HS384"), Absent, Absent)),
    \* {"alg":"HS512"}
    Seg("eyJhbGciOiJIUzUxMiJ9", "common", "none", JObject(JStr("HS512"), Absent, Absent)),
    \* {"alg":"none"}
    Seg("eyJhbGciOiJub25lIn0", "common", "unpadded", JObject(JStr("none"), Absent, Absent)),
    \* {"alg":"NONE"}
    Seg("eyJhbGciOiJOT05FIn0", "common", "unpadded", JObject(JStr("NONE"), Absent, Absent)),
    \* {"typ":"JWT"}
    Seg("eyJ0eXAiOiJKV1QifQ", "common", "unpadded", JObject(Absent, Absent, Absent)),
    \* {"alg":"XS999"}
    Seg("eyJhbGciOiJYUzk5OSJ9", "common", "none", JObject(JStr("XS999"), Absent, Absent)),
    \* {"alg":"RS256" } in padded form
    Seg("eyJhbGciOiJSUzI1NiIgfQ==", "common", "padded",
        JObject(JStr("RS256"), Absent, Absent)),
    \* [null,"RS256",null,null,null,null,null,null,null,null]
    Seg("W251bGwsIlJTMjU2IixudWxsLG51bGwsbnVsbCxudWxsLG51bGwsbnVsbCxudWxsLG51bGxd",
        "common", "none",
        JArray(<<Null, JStr("RS256"), Null, Null, Null, Null, Null, Null, Null, Null>>)),
    \* [null,"HS256",null,null,null,null,null,null,null,null]
    Seg("W251bGwsIkhTMjU2IixudWxsLG51bGwsbnVsbCxudWxsLG51bGwsbnVsbCxudWxsLG51bGxd",
        "common", "none",
        JArray(<<Null, JStr("HS256"), Null, Null, Null, Null, Null, Null, Null, Null>>)),
    \* [null,"XS999",null,null,null,null,null,null,null,null]
    Seg("W251bGwsIlhTOTk5IixudWxsLG51bGwsbnVsbCxudWxsLG51bGwsbnVsbCxudWxsLG51bGxd",
        "common", "none",
        JArray(<<Null, JStr("XS999"), Null, Null, Null, Null, Null, Null, Null, Null>>)),
    \* [null,"RS256"]
    Seg("W251bGwsIlJTMjU2Il0", "common", "unpadded", JArray(<<Null, JStr("RS256")>>)),
    \* not json
    Seg("bm90IGpzb24", "common", "unpadded", NotJson),
    \* no base64 at all
    Seg("!!!!", "bad", "none", NotJson) }

PayloadSegments == {
    \* {} padded, and unpadded
    Seg("e30=", "common", "padded", JObject(Absent, Absent, Absent)),
    Seg("e30", "common", "unpadded", JObject(Absent, Absent, Absent)),
    \* {"exp":1}
    Seg("eyJleHAiOjF9", "common", "none", JObject(Absent, JInt(1), Absent)),
    \* {"iss":"http://localhost:9000"}
    Seg("eyJpc3MiOiJodHRwOi8vbG9jYWxob3N0OjkwMDAifQ", "common", "unpadded",
        JObject(Absent, Absent, JStr(LOKI_URL))),
    \* {"iss":"http://localhost:9000/"}
    Seg("eyJpc3MiOiJodHRwOi8vbG9jYWxob3N0OjkwMDAvIn0=", "common", "padded",
        JObject(Absent, Absent, JStr(SlashIssuer))),
    \* {"iss":"https://evil.example"}
    Seg("eyJpc3MiOiJodHRwczovL2V2aWwuZXhhbXBsZSJ9", "common", "none",
        JObject(Absent, Absent, JStr(EvilIssuer))),
    \* {"exp":1,"iss":"http://localhost:9000"}
    Seg("eyJleHAiOjEsImlzcyI6Imh0dHA6Ly9sb2NhbGhvc3Q6OTAwMCJ9", "common", "none",
        JObject(Absent, JInt(1), JStr(LOKI_URL))),
    \* {"exp":1,"iss":"https://evil.example"}
    Seg("eyJleHAiOjEsImlzcyI6Imh0dHBzOi8vZXZpbC5leGFtcGxlIn0=", "common", "padded",
        JObject(Absent, JInt(1), JStr(EvilIssuer))),
    \* {"exp":1,"iss":"https://trusted.example"}
    Seg("eyJleHAiOjEsImlzcyI6Imh0dHBzOi8vdHJ1c3RlZC5leGFtcGxlIn0", "common", "unpadded",
        JObject(Absent, JInt(1), JStr(TrustedIssuer))),
    \* {"exp":null,"iss":null}
    Seg("eyJleHAiOm51bGwsImlzcyI6bnVsbH0", "common", "unpadded",
        JObject(Absent, Null, Null)),
    \* {"exp":"soon"}
    Seg("eyJleHAiOiJzb29uIn0", "common", "unpadded",
        JObject(Absent, JStr("soon"), Absent)),
    \* {"exp":-1}
    Seg("eyJleHAiOi0xfQ", "common", "unpadded", JObject(Absent, JInt(-1), Absent)),
    \* {"iss":"a?b>c"} in the URL-safe alphabet, and in the standard one
    Seg("eyJpc3MiOiJhP2I-YyJ9", "url", "none", JObject(Absent, Absent, JStr(QueryIssuer))),
    Seg("eyJpc3MiOiJhP2I+YyJ9", "std", "none", JObject(Absent, Absent, JStr(QueryIssuer))),
    \* {"sub":"??>"} in the URL-safe alphabet with padding
    Seg("eyJzdWIiOiI_Pz4ifQ==", "url", "padded", JObject(Absent, Absent, Absent)),
    \* [null,null]
    Seg("W251bGwsbnVsbF0", "common", "unpadded", JArray(<<Null, Null>>)),
    \* [1,"https://evil.example"]
    Seg("WzEsImh0dHBzOi8vZXZpbC5leGFtcGxlIl0", "common", "unpadded",
        JArray(<<JInt(1), JStr(EvilIssuer)>>)),
    \* [1,2]
    Seg("WzEsMl0", "common", "unpadded", JArray(<<JInt(1), JInt(2)>>)),
    \* ["soon",null]
    Seg("WyJzb29uIixudWxsXQ", "common", "unpadded", JArray(<<JStr("soon"), Null>>)),
    \* [null,null,null]
    Seg("W251bGwsbnVsbCxudWxsXQ", "common", "unpadded", JArray(<<Null, Null, Null>>)),
    \* []
    Seg("W10", "common", "unpadded", JArray(<< >>)),
    \* not json
    Seg("bm90IGpzb24", "common", "unpadded", NotJson),
    \* no base64 at all
    Seg("!!!!", "bad", "none", NotJson) }

SignatureSegments == {
    \* the empty signature: it decodes to no bytes
    Seg("", "common", "none", NotJson),
    \* sig
    Seg("c2ln", "common", "none", NotJson) }

Segments == HeaderSegments \cup PayloadSegments \cup SignatureSegments

SegInfo(text) == CHOOSE s \in Segments : s.text = text

Texts(segs) == { s.text : s \in segs }

---------------------------------------------------------------------------
(* The base64 engines (crate base64, general_purpose).                     *)

Decoded(bytes) == [ok |-> TRUE, bytes |-> bytes]
DecodeError == [ok |-> FALSE, bytes |-> NotJson]

\* STANDARD: the standard alphabet, canonical padding required
STANDARD_decode(text) ==
    LET s == SegInfo(text)
    IN  IF s.alphabet \in {"common", "std"} /\ s.padding \in {"none", "padded"}
        THEN Decoded(s.json)
        ELSE DecodeError

\* URL_SAFE_NO_PAD: the URL-safe alphabet, no padding allowed
URL_SAFE_NO_PAD_decode(text) ==
    LET s == SegInfo(text)
    IN  IF s.alphabet \in {"common", "url"} /\ s.padding \in {"none", "unpadded"}
        THEN Decoded(s.json)
        ELSE DecodeError

---------------------------------------------------------------------------
(* jsonwebtoken::decode_header and jsonwebtoken::Algorithm, as line 113    *)
(* uses them.                                                              *)

\* the variants of jsonwebtoken::Algorithm; serde reads them by exact name
AlgorithmNames == { "HS256", "HS384", "HS512", "ES256", "ES384",
                    "RS256", "RS384", "RS512", "PS256", "PS384", "PS512", "EdDSA" }

\* str::rsplitn(2, '.') of the string made of `segs`: the last segment and
\* what is before the last '.', or the whole string when it has no '.'
RSplitN2(segs) ==
    IF Len(segs) < 2 THEN << segs >>
    ELSE << << segs[Len(segs)] >>, SubSeq(segs, 1, Len(segs) - 1) >>

HeaderOk(alg) == [ok |-> TRUE, alg |-> alg, err |-> ""]
HeaderErr(err) == [ok |-> FALSE, alg |-> "", err |-> err]

\* struct jsonwebtoken::Header, field by field in declaration order
HeaderFieldNames ==
    << "typ", "alg", "cty", "jku", "jwk", "kid", "x5u", "x5c", "x5t", "x5t_s256" >>

\* whether the scalar `v` deserialises as field `f` of Header: alg is an
\* Algorithm (a variant's exact name), jwk (Option<Jwk>) and x5c
\* (Option<Vec<String>>) take no scalar but null, the others are
\* Option<String>
HeaderFieldOk(f, v) ==
    IF f = "alg" THEN v.t = "str" /\ v.s \in AlgorithmNames
    ELSE IF f \in { "jwk", "x5c" } THEN v.t = "null"
    ELSE v.t \in { "null", "str" }

\* a JSON array read as Header by position: one item per field, no more
HeaderArrayOk(items) ==
    /\ Len(items) = Len(HeaderFieldNames)
    /\ \A i \in 1 .. Len(items) : HeaderFieldOk(HeaderFieldNames[i], items[i])

\* ParseHeader with an algorithm field that defaults to HS256 when absent
ParseHeader_DefaultAlg(json) ==
    IF json.kind = "object" /\ json.alg.t = "absent" THEN HeaderOk("HS256")
    ELSE IF json.kind = "object" /\ HeaderFieldOk("alg", json.alg)
    THEN HeaderOk(json.alg.s)
    ELSE IF json.kind = "array" /\ HeaderArrayOk(json.items)
    THEN HeaderOk(json.items[2].s)
    ELSE HeaderErr("Json")

\* serde_json::from_slice::<Header>: the derived Deserialize reads a JSON
\* object by key ("alg" must name a variant of Algorithm; the members other
\* than alg of the objects considered are well typed) and a JSON array by
\* position.
ParseHeader(json) ==
    IF json.kind = "object" /\ HeaderFieldOk("alg", json.alg)
    THEN HeaderOk(json.alg.s)
    ELSE IF json.kind = "array" /\ HeaderArrayOk(json.items)
    THEN HeaderOk(json.items[2].s)
    ELSE HeaderErr("Json")

\* decode_header taking the first of two or more segments as the header
decode_header_Lenient(tok) ==
    IF Len(tok) < 2 THEN HeaderErr("InvalidToken")
    ELSE LET d == URL_SAFE_NO_PAD_decode(tok[1])
         IN  IF ~d.ok THEN HeaderErr("Base64") ELSE ParseHeader(d.bytes)

\* decode_header: expect_two!(token.rsplitn(2, '.')), then
\* expect_two!(message.rsplitn(2, '.')), then the header part decoded with
\* URL_SAFE_NO_PAD and parsed.  A header part that still holds a '.' (a token
\* of more than three segments) is not base64.
decode_header(tok) ==
    LET outer == RSplitN2(tok)
    IN  IF Len(outer) # 2 THEN HeaderErr("InvalidToken")
        ELSE LET inner == RSplitN2(outer[2])
             IN  IF Len(inner) # 2 THEN HeaderErr("InvalidToken")
                 ELSE IF Len(inner[2]) # 1 THEN HeaderErr("Base64")
                 ELSE LET d == URL_SAFE_NO_PAD_decode(inner[2][1])
                      IN  IF ~d.ok THEN HeaderErr("Base64")
                          ELSE ParseHeader(d.bytes)

\* format!("{:?}", header.alg): the variant's name
DebugAlg(alg) == alg

\* str::to_lowercase on the names format!("{:?}", header.alg) can give
to_lowercase(s) ==
    CASE s = "HS256" -> "hs256" [] s = "HS384" -> "hs384" [] s = "HS512" -> "hs512"
      [] s = "ES256" -> "es256" [] s = "ES384" -> "es384"
      [] s = "RS256" -> "rs256" [] s = "RS384" -> "rs384" [] s = "RS512" -> "rs512"
      [] s = "PS256" -> "ps256" [] s = "PS384" -> "ps384" [] s = "PS512" -> "ps512"
      [] s = "EdDSA" -> "eddsa"
      [] OTHER -> s

\* str::ends_with('.'): the string ends in a separator when its last segment
\* is empty and is not its only one
ends_with_dot(tok) == Len(tok) >= 2 /\ tok[Len(tok)] = ""

\* IsSymmetric that knows HS256 only
IsSymmetric_OnlyHS256(alg) == alg = "HS256"

IsSymmetric(alg) == alg \in {"HS256", "HS384", "HS512"}

---------------------------------------------------------------------------
(* struct Claims and serde_json::from_slice::<Claims>.                     *)

NoClaims == [exp |-> NoneInt, iss |-> NoneStr]

\* Option<u64>: absent or null is None, a non-negative integer is Some
ExpOk(v) == v.t \in {"absent", "null"} \/ (v.t = "int" /\ v.n >= 0)
ExpOf(v) == IF v.t = "int" THEN SomeInt(v.n) ELSE NoneInt
\* Option<String>: absent or null is None, a string is Some
IssOk(v) == v.t \in {"absent", "null", "str"}
IssOf(v) == IF v.t = "str" THEN SomeStr(v.s) ELSE NoneStr

ClaimsOk(c) == [ok |-> TRUE, claims |-> c]
ClaimsErr == [ok |-> FALSE, claims |-> NoClaims]

\* The derived Deserialize reads a JSON object by key and a JSON array by
\* position (exp, then iss, and nothing more).
ParseClaims(json) ==
    IF json.kind = "object" THEN
        IF ExpOk(json.exp) /\ IssOk(json.iss)
        THEN ClaimsOk([exp |-> ExpOf(json.exp), iss |-> IssOf(json.iss)])
        ELSE ClaimsErr
    ELSE IF json.kind = "array" THEN
        IF /\ Len(json.items) = 2
           /\ json.items[1].t # "absent" /\ ExpOk(json.items[1])
           /\ json.items[2].t # "absent" /\ IssOk(json.items[2])
        THEN ClaimsOk([exp |-> ExpOf(json.items[1]), iss |-> IssOf(json.items[2])])
        ELSE ClaimsErr
    ELSE ClaimsErr

\* STANDARD.decode(parts[1]).or_else(|_| URL_SAFE_NO_PAD.decode(parts[1]))
DecodeClaimsSegment(text) ==
    LET d == STANDARD_decode(text)
    IN  IF d.ok THEN d ELSE URL_SAFE_NO_PAD_decode(text)

---------------------------------------------------------------------------
(* Result<(), String>: the messages validate_token returns.                *)

MsgFormat == "Invalid token format: {}"
MsgNone == "SECURITY: token uses alg:none - unsigned tokens not allowed"
MsgSymmetric ==
    "SECURITY: symmetric algorithm {:?} not allowed - possible key confusion attack"
MsgStructure == "Invalid token structure"
MsgEncoding == "Invalid claims encoding: {}"
MsgJson == "Invalid claims JSON: {}"
MsgExpired == "SECURITY: token is expired"
MsgIssuer == "SECURITY: unexpected issuer: {}"

Pending == [tag |-> "pending", msg |-> "", arg |-> ""]
Ok == [tag |-> "Ok", msg |-> "", arg |-> ""]
\* msg: the format string; arg: what it interpolates
Err(msg, arg) == [tag |-> "Err", msg |-> msg, arg |-> arg]

---------------------------------------------------------------------------
(* fn validate_token(token: &str) -> Result<(), String>, statement by      *)
(* statement.  pc names the statement about to run; "return" is the state  *)
(* after the function has returned `result`.                               *)

\* StepAfter with the claims decoded before the symmetric-algorithm check
StepAfter_ClaimsFirst(p) ==
    CASE p = "decode_header" -> "check1"
      [] p = "check1" -> "check_none"
      [] p = "check_none" -> "split"
      [] p = "split" -> "decode_claims"
      [] p = "decode_claims" -> "parse_claims"
      [] p = "parse_claims" -> "check2"
      [] p = "check2" -> "check3"
      [] p = "check3" -> "check4"
      [] p = "check4" -> "return"

\* the statement that follows `p` when `p` does not return
StepAfter(p) ==
    CASE p = "decode_header" -> "check1"
      [] p = "check1" -> "check_none"
      [] p = "check_none" -> "check2"
      [] p = "check2" -> "split"
      [] p = "split" -> "decode_claims"
      [] p = "decode_claims" -> "parse_claims"
      [] p = "parse_claims" -> "check3"
      [] p = "check3" -> "check4"
      [] p = "check4" -> "return"

ValidateSteps == { "decode_header", "check1", "check_none", "check2", "split",
                   "decode_claims", "parse_claims", "check3", "check4" }

\* the check a statement belongs to
CheckOf(p) ==
    CASE p \in {"check1", "check_none"} -> "unsigned-token check"
      [] p = "check2" -> "symmetric-algorithm check"
      [] p \in {"split", "decode_claims", "parse_claims"} -> "claims decode"
      [] p = "check3" -> "expiration check"
      [] p = "check4" -> "issuer check"

\* `evaluated` once the check of statement pc has been entered
Entered(check) ==
    IF evaluated # << >> /\ evaluated[Len(evaluated)] = check
    THEN evaluated
    ELSE Append(evaluated, check)

Return(r) ==
    /\ result' = r
    /\ pc' = "return"

Continue ==
    /\ result' = result
    /\ pc' = StepAfter(pc)

harness == << test, session_id, results, exit_code >>

\* line 113: let header = decode_header(token).map_err(...)?
\* decode_header splits the token first and decodes the header part second
V_DecodeHeader ==
    /\ pc = "decode_header"
    /\ LET h == decode_header(token)
       IN  /\ evaluated' = IF h.err = "InvalidToken"
                           THEN << "structural parse" >>
                           ELSE << "structural parse", "header decode" >>
           /\ IF h.ok
              THEN header' = h.alg /\ Continue
              ELSE header' = header /\ Return(Err(MsgFormat, h.err))
    /\ UNCHANGED << harness, token, claims, now >>

\* lines 116-121: if header.alg == Algorithm::HS256 && token.ends_with('.')
V_Check1 ==
    /\ pc = "check1"
    /\ evaluated' = Entered(CheckOf(pc))
    /\ IF header = "HS256" /\ ends_with_dot(token)
       THEN Return(Err(MsgNone, ""))
       ELSE Continue
    /\ UNCHANGED << harness, token, header, claims, now >>

\* lines 124-129: if format!("{:?}", header.alg).to_lowercase() == "none"
V_CheckNone ==
    /\ pc = "check_none"
    /\ evaluated' = Entered(CheckOf(pc))
    /\ IF to_lowercase(DebugAlg(header)) = "none"
       THEN Return(Err(MsgNone, ""))
       ELSE Continue
    /\ UNCHANGED << harness, token, header, claims, now >>

\* lines 132-140: match header.alg { HS256 | HS384 | HS512 => return Err(..) }
V_Check2 ==
    /\ pc = "check2"
    /\ evaluated' = Entered(CheckOf(pc))
    /\ IF IsSymmetric(header)
       THEN Return(Err(MsgSymmetric, DebugAlg(header)))
       ELSE Continue
    /\ UNCHANGED << harness, token, header, claims, now >>

\* lines 143-146: parts = token.split('.'); if parts.len() < 2
V_Split ==
    /\ pc = "split"
    /\ evaluated' = Entered(CheckOf(pc))
    /\ IF Len(token) < 2
       THEN Return(Err(MsgStructure, ""))
       ELSE Continue
    /\ UNCHANGED << harness, token, header, claims, now >>

\* lines 148-154: STANDARD.decode(parts[1]).or_else(URL_SAFE_NO_PAD).map_err(..)?
V_DecodeClaims ==
    /\ pc = "decode_claims"
    /\ evaluated' = Entered(CheckOf(pc))
    /\ IF DecodeClaimsSegment(token[2]).ok
       THEN Continue
       ELSE Return(Err(MsgEncoding, "Base64"))
    /\ UNCHANGED << harness, token, header, claims, now >>

\* lines 156-157: serde_json::from_slice(&claims_json).map_err(..)?
V_ParseClaims ==
    /\ pc = "parse_claims"
    /\ evaluated' = Entered(CheckOf(pc))
    /\ LET c == ParseClaims(DecodeClaimsSegment(token[2]).bytes)
       IN  IF c.ok
           THEN claims' = c.claims /\ Continue
           ELSE claims' = claims /\ Return(Err(MsgJson, "Json"))
    /\ UNCHANGED << harness, token, header, now >>

\* Expired that also rejects a token expiring at the clock reading
Expired_Inclusive(exp, n) == exp <= n

\* Expired with the comparison turned around
Expired_Flipped(exp, n) == n < exp

\* line 165
Expired(exp, n) == exp < n

\* lines 160-168: if let Some(exp) = claims.exp { now = SystemTime::now()..;
\* if exp < now { return Err(..) } }
V_Check3 ==
    /\ pc = "check3"
    /\ evaluated' = Entered(CheckOf(pc))
    /\ IF claims.exp.some
       THEN \E n \in Times :
               /\ now' = SomeInt(n)
               /\ IF Expired(claims.exp.val, n)
                  THEN Return(Err(MsgExpired, ""))
                  ELSE Continue
       ELSE now' = now /\ Continue
    /\ UNCHANGED << harness, token, header, claims >>

\* line 172
IssuerMismatch(iss) == iss # LOKI_URL

\* lines 171-177: if let Some(iss) = &claims.iss { if iss != LOKI_URL {
\* return Err(..) } }  Ok(())
V_Check4 ==
    /\ pc = "check4"
    /\ evaluated' = Entered(CheckOf(pc))
    /\ IF claims.iss.some /\ IssuerMismatch(claims.iss.val)
       THEN Return(Err(MsgIssuer, claims.iss.val))
       ELSE Return(Ok)
    /\ UNCHANGED << harness, token, header, claims, now >>

validate_token ==
    \/ V_DecodeHeader
    \/ V_Check1
    \/ V_CheckNone
    \/ V_Check2
    \/ V_Split
    \/ V_DecodeClaims
    \/ V_ParseClaims
    \/ V_Check3
    \/ V_Check4

---------------------------------------------------------------------------
(* The token strings considered.                                           *)

ThreeSegmentTokens ==
    { << h, p, s >> : h \in Texts(HeaderSegments), p \in Texts(PayloadSegments),
                      s \in Texts(SignatureSegments) }

\* strings of one, two and four segments: "h", "", "h.p", "h." and "h.p.s.s"
OtherTokens ==
    { << h >> : h \in Texts(HeaderSegments) } \cup { << "" >> }
    \cup { << h, p >> : h \in Texts(HeaderSegments),
                        p \in { "eyJleHAiOjEsImlzcyI6Imh0dHA6Ly9sb2NhbGhvc3Q6OTAwMCJ9", "" } }
    \cup { << h, "e30=", "c2ln", "c2ln" >> : h \in Texts(HeaderSegments) }

Tokens == ThreeSegmentTokens \cup OtherTokens

(* validate_token called on any of the token strings. *)
Init ==
    /\ test = 0
    /\ pc = "decode_header"
    /\ session_id = NoneStr
    /\ token \in Tokens
    /\ header = ""
    /\ claims = NoClaims
    /\ now = NoneInt
    /\ evaluated = << >>
    /\ result = Pending
    /\ results = << >>
    /\ exit_code = NoneInt

Next == validate_token

Spec == Init /\ [][Next]_vars

---------------------------------------------------------------------------
(* main and its test functions.  test_alg_none, test_key_confusion and     *)
(* test_temporal_tampering are tests 1, 2 and 3 (the same statements with  *)
(* other names and messages), test_valid_token is test 4.                  *)

AttackTests == { 1, 2, 3 }
LastTest == 4

TestName(t) ==
    CASE t = 1 -> "alg-none" [] t = 2 -> "key-confusion"
      [] t = 3 -> "temporal-tampering" [] t = 4 -> "valid-token"

\* the message of the Ok(_) arm of each attack test
AcceptedMessage(t) ==
    CASE t = 1 -> "Client accepted unsigned token"
      [] t = 2 -> "Client accepted HS256 token"
      [] t = 3 -> "Client accepted expired token"

\* struct TestResult; message is the text and what it interpolates
TestResult(name, passed, msg, arg) ==
    [name |-> name, passed |-> passed, message |-> [msg |-> msg, arg |-> arg]]

\* the values a test function holds while it runs
FreshLocals ==
    /\ session_id' = NoneStr
    /\ token' = NoToken
    /\ header' = ""
    /\ claims' = NoClaims
    /\ now' = NoneInt
    /\ evaluated' = << >>
    /\ result' = Pending

\* the test function returns `r` to main
ReturnTestResult(r) ==
    /\ results' = Append(results, r)
    /\ pc' = "returned"

\* what the token endpoint may answer: token strings of three segments and
\* one string without a separator
ServerTokens ==
    { << h, p, s >> :
        h \in { "eyJhbGciOiJSUzI1NiJ9", "eyJhbGciOiJIUzI1NiJ9", "eyJhbGciOiJub25lIn0" },
        p \in { "eyJleHAiOjEsImlzcyI6Imh0dHA6Ly9sb2NhbGhvc3Q6OTAwMCJ9",
                "eyJpc3MiOiJodHRwczovL2V2aWwuZXhhbXBsZSJ9", "bm90IGpzb24" },
        s \in Texts(SignatureSegments) }
    \cup { << "!!!!" >> }

\* fn create_session: Some(session id) when the request succeeds and the
\* answer parses, None otherwise
create_session == { SomeStr("session"), NoneStr }

\* fn get_token: Some(access_token) when the request succeeds and the answer
\* parses, None (NoToken) otherwise
get_token == ServerTokens \cup { NoToken }

\* lines 184-193 (239-248, 294-303): match create_session(..)
T_CreateSession ==
    /\ pc = "create_session"
    /\ test \in AttackTests
    /\ \E r \in create_session :
          /\ session_id' = r
          /\ IF r.some
             THEN pc' = "get_token" /\ results' = results
             ELSE ReturnTestResult(
                      TestResult(TestName(test), FALSE, "Could not create session", ""))
    /\ UNCHANGED << test, token, header, claims, now, evaluated,
                    result, exit_code >>

\* lines 195-206 (250-261, 305-316, 350-361): match get_token(..), and the
\* call validate_token(&token) (decode_header(&token) in test_valid_token)
T_GetToken ==
    /\ pc = "get_token"
    /\ test \in AttackTests => session_id.some
    /\ \E r \in get_token :
          /\ token' = r
          /\ IF r # NoToken
             THEN /\ pc' = IF test \in AttackTests THEN "decode_header"
                                                   ELSE "decode_header_valid"
                  /\ results' = results
             ELSE ReturnTestResult(
                      TestResult(TestName(test), FALSE, "Could not get token", ""))
    /\ UNCHANGED << test, session_id, header, claims, now, evaluated,
                    result, exit_code >>

\* AttackTestResult that passes only on the error its first Err arm matches
AttackTestResult_Strict(t, res) ==
    IF res.tag = "Ok"
    THEN TestResult(TestName(t), FALSE, AcceptedMessage(t), "")
    ELSE TestResult(TestName(t),
                    \/ t = 1 /\ res.msg \in { MsgNone, MsgSymmetric }
                    \/ t = 2 /\ res.msg = MsgSymmetric
                    \/ t = 3 /\ res.msg = MsgExpired,
                    res.msg, res.arg)

\* lines 206-232 (261-287, 316-342): match validate_token(&token); both
\* Err arms build the same TestResult
AttackTestResult(t, res) ==
    IF res.tag = "Ok"
    THEN TestResult(TestName(t), FALSE, AcceptedMessage(t), "")
    ELSE TestResult(TestName(t), TRUE, res.msg, res.arg)

T_MatchResult ==
    /\ pc = "return"
    /\ test \in AttackTests
    /\ ReturnTestResult(AttackTestResult(test, result))
    /\ UNCHANGED << test, session_id, token, header, claims, now,
                    evaluated, result, exit_code >>

\* lines 361-388: match decode_header(&token) in test_valid_token
T_ValidToken ==
    /\ pc = "decode_header_valid"
    /\ test = LastTest
    /\ LET h == decode_header(token)
       IN  IF h.ok
           THEN /\ header' = h.alg
                /\ ReturnTestResult(
                       TestResult(TestName(test), TRUE, "Algorithm: {}", DebugAlg(h.alg)))
           ELSE /\ header' = header
                /\ ReturnTestResult(TestResult(TestName(test), FALSE, "{}", h.err))
    /\ UNCHANGED << test, session_id, token, claims, now, evaluated,
                    result, exit_code >>

\* lines 398-403: main calls the next test function
T_NextTest ==
    /\ pc = "returned"
    /\ test' = test + 1
    /\ pc' = IF test + 1 \in AttackTests THEN "create_session"
             ELSE IF test + 1 = LastTest THEN "get_token"
             ELSE "summary"
    /\ FreshLocals
    /\ UNCHANGED << results, exit_code >>

\* results.iter().filter(|r| r.passed).count()
PassedCount(rs) == Cardinality({ i \in 1 .. Len(rs) : rs[i].passed })

\* lines 410-419: std::process::exit(if passed == total { 0 } else { 1 })
T_Summary ==
    /\ pc = "summary"
    /\ exit_code' = SomeInt(IF PassedCount(results) = Len(results) THEN 0 ELSE 1)
    /\ pc' = "exit"
    /\ UNCHANGED << test, session_id, token, header, claims, now,
                    evaluated, result, results >>

(* main, about to call its first test function. *)
MainInit ==
    /\ test = 1
    /\ pc = "create_session"
    /\ session_id = NoneStr
    /\ token = NoToken
    /\ header = ""
    /\ claims = NoClaims
    /\ now = NoneInt
    /\ evaluated = << >>
    /\ result = Pending
    /\ results = << >>
    /\ exit_code = NoneInt

MainNext ==
    \/ T_CreateSession
    \/ T_GetToken
    \/ validate_token
    \/ T_MatchResult
    \/ T_ValidToken
    \/ T_NextTest
    \/ T_Summary

MainSpec == MainInit /\ [][MainNext]_vars

---------------------------------------------------------------------------
(* Vocabulary of the properties.                                           *)

\* the rejection kind a returned message stands for
RejectKind(msg) ==
    CASE msg \in { MsgFormat, MsgStructure, MsgEncoding, MsgJson } -> "Malformed"
      [] msg = MsgNone -> "UnsignedToken"
      [] msg = MsgSymmetric -> "SymmetricAlgorithm"
      [] msg = MsgExpired -> "Expired"
      [] msg = MsgIssuer -> "UnexpectedIssuer"

Verdict ==
    IF result.tag = "Ok" THEN "Accepted"
    ELSE IF result.tag = "Err" THEN RejectKind(result.msg)
    ELSE "pending"

Returned == result.tag # "pending"

HmacNames == { "HS256", "HS384", "HS512" }
NoneSpellings == { "none", "None", "NONE" }

\* decode_header gave an algorithm, and it is not an HMAC one
AsymmetricHeader == header # "" /\ header \notin HmacNames

\* the bytes of the header segment, whichever engine reads them
HeaderBytes(tok) ==
    LET u == URL_SAFE_NO_PAD_decode(tok[1])
    IN  IF u.ok THEN u ELSE STANDARD_decode(tok[1])

\* the algorithm member of the header's JSON: the "alg" of an object, the
\* second item of an array
AlgMember(json) ==
    IF json.kind = "object" THEN json.alg
    ELSE IF json.kind = "array" /\ Len(json.items) >= 2 THEN json.items[2]
    ELSE Absent

\* the Claims the payload segment of a token of two or more segments holds
ClaimsOf(tok) ==
    LET d == DecodeClaimsSegment(tok[2])
    IN  IF d.ok THEN ParseClaims(d.bytes) ELSE ClaimsErr

LastEvaluated == IF evaluated = << >> THEN "" ELSE evaluated[Len(evaluated)]

CheckOrder == << "structural parse", "header decode", "unsigned-token check",
                 "symmetric-algorithm check", "claims decode", "expiration check",
                 "issuer check" >>

KindOfCheck(check) ==
    CASE check \in { "structural parse", "header decode", "claims decode" } -> "Malformed"
      [] check = "unsigned-token check" -> "UnsignedToken"
      [] check = "symmetric-algorithm check" -> "SymmetricAlgorithm"
      [] check = "expiration check" -> "Expired"
      [] check = "issuer check" -> "UnexpectedIssuer"

IsPrefix(a, b) == Len(a) <= Len(b) /\ a = SubSeq(b, 1, Len(a))

---------------------------------------------------------------------------
(* C1: a token whose header algorithm is "none" in any letter case, or     *)
(* whose signature segment is empty whatever its algorithm, is rejected as *)
(* UnsignedToken.                                                          *)
C1_UnsignedTokenRejected ==
    (/\ Returned
     /\ Len(token) = 3
     /\ \/ /\ HeaderBytes(token).ok
           /\ AlgMember(HeaderBytes(token).bytes).t = "str"
           /\ AlgMember(HeaderBytes(token).bytes).s \in NoneSpellings
        \/ header # "" /\ token[3] = "")
    => Verdict = "UnsignedToken"

(* C2 as claimed: a token whose header algorithm is HS256, HS384 or HS512  *)
(* is rejected as SymmetricAlgorithm whatever its signature segment holds. *)
C2_AlwaysSymmetric ==
    (Returned /\ header \in HmacNames) => Verdict = "SymmetricAlgorithm"

(* C2: a token whose header algorithm is HS256, HS384 or HS512 is rejected *)
(* as SymmetricAlgorithm, except an HS256 token that ends in the separator,*)
(* which is rejected as UnsignedToken; it is never accepted and its        *)
(* payload is never looked at.                                             *)
C2_SymmetricRejected ==
    (Returned /\ header \in HmacNames)
    => /\ Verdict = IF header = "HS256" /\ ends_with_dot(token)
                    THEN "UnsignedToken" ELSE "SymmetricAlgorithm"
       /\ "claims decode" \notin { evaluated[i] : i \in 1 .. Len(evaluated) }

C2_Witness ==
    /\ Returned
    /\ header = "HS512"
    /\ token[3] = "c2ln"
    /\ ClaimsOf(token).ok
    /\ ClaimsOf(token).claims.iss = SomeStr(LOKI_URL)
    /\ Verdict = "SymmetricAlgorithm"

(* C3: a token with a non-HMAC algorithm, whose claims hold no expiration  *)
(* or one greater than or equal to the clock reading, and no issuer or the *)
(* issuer LOKI_URL, is accepted.                                           *)
C3_Accepted ==
    (/\ Returned
     /\ AsymmetricHeader
     /\ ClaimsOf(token).ok
     /\ LET c == ClaimsOf(token).claims
        IN  /\ c.exp.some => (now.some /\ c.exp.val >= now.val)
            /\ c.iss.some => c.iss.val = LOKI_URL)
    => Verdict = "Accepted"

C3_Witness ==
    /\ Returned
    /\ AsymmetricHeader
    /\ ClaimsOf(token).ok
    /\ ClaimsOf(token).claims.exp.some
    /\ now = ClaimsOf(token).claims.exp
    /\ ClaimsOf(token).claims.iss = SomeStr(LOKI_URL)
    /\ Verdict = "Accepted"

(* C4: a token with a non-HMAC algorithm whose claims hold an expiration   *)
(* strictly less than the clock reading is rejected as Expired, also when  *)
(* its issuer is not the expected one.                                     *)
C4_ExpiredRejected ==
    (/\ Returned
     /\ AsymmetricHeader
     /\ ClaimsOf(token).ok
     /\ ClaimsOf(token).claims.exp.some
     /\ now.some
     /\ ClaimsOf(token).claims.exp.val < now.val)
    => Verdict = "Expired"

C4_Witness ==
    /\ Returned
    /\ AsymmetricHeader
    /\ ClaimsOf(token).ok
    /\ ClaimsOf(token).claims.exp.some
    /\ now.some
    /\ ClaimsOf(token).claims.exp.val < now.val
    /\ ClaimsOf(token).claims.iss = SomeStr(EvilIssuer)
    /\ Verdict = "Expired"

\* the expected issuers a caller may supply
Issuers == { LOKI_URL, TrustedIssuer, EvilIssuer }

(* C5: whatever expected issuer the caller supplies, a token that reaches  *)
(* the issuer check with an issuer claim is rejected as UnexpectedIssuer   *)
(* exactly when its issuer differs from that expected issuer; a token      *)
(* whose issuer is the one its caller expects is accepted.                 *)
C5_CallerSuppliedIssuer ==
    \A expected \in Issuers :
        (Returned /\ LastEvaluated = "issuer check" /\ claims.iss.some)
        => (Verdict = "UnexpectedIssuer" <=> claims.iss.val # expected)

(* C6: the checks are evaluated in the order structural parse, header      *)
(* decode, unsigned-token check, symmetric-algorithm check, claims decode, *)
(* expiration check, issuer check; a rejection is the rejection of the     *)
(* last check evaluated and ends the validation, and a token is accepted   *)
(* only after all of them.                                                 *)
C6_OrderedShortCircuit ==
    /\ IsPrefix(evaluated, CheckOrder)
    /\ result.tag = "Err" =>
          /\ evaluated # << >>
          /\ Verdict = KindOfCheck(LastEvaluated)
          /\ pc \notin ValidateSteps
    /\ result.tag = "Ok" => (evaluated = CheckOrder /\ pc \notin ValidateSteps)
    /\ (result.tag = "pending" /\ pc \in ValidateSteps /\ pc # "decode_header") =>
          \E i \in 1 .. Len(CheckOrder) :
              /\ CheckOrder[i] = CheckOf(pc)
              /\ Len(evaluated) \in { i - 1, i }

\* an HS256 token with an expired and foreign-issuer payload: three checks
\* are violated and the symmetric-algorithm check, the earliest, decides
C6_Witness ==
    /\ Returned
    /\ header = "HS256"
    /\ ~ends_with_dot(token)
    /\ ClaimsOf(token).claims.exp.some
    /\ ClaimsOf(token).claims.iss = SomeStr(EvilIssuer)
    /\ evaluated = SubSeq(CheckOrder, 1, 4)
    /\ Verdict = "SymmetricAlgorithm"

(* C7 as claimed: a token of exactly two segments with a sound header is   *)
(* not rejected for that reason alone, validation goes on to the algorithm *)
(* checks; the structural parse rejects only tokens of fewer than two      *)
(* segments.                                                               *)
C7_TwoSegmentsTolerated ==
    Returned =>
       /\ (/\ Len(token) = 2
           /\ token[2] # ""
           /\ HeaderBytes(token).ok
           /\ ParseHeader(HeaderBytes(token).bytes).ok)
          => "unsigned-token check" \in { evaluated[i] : i \in 1 .. Len(evaluated) }
       /\ LastEvaluated = "structural parse" => Len(token) < 2

(* C7: a token of exactly two segments is rejected as Malformed for that   *)
(* reason alone, by the structural parse of decode_header and before any   *)
(* algorithm or claims check; the structural parse rejects exactly the     *)
(* tokens of fewer than three segments.                                    *)
C7_TwoSegmentsMalformed ==
    Returned =>
       /\ Len(token) = 2 =>
             (Verdict = "Malformed" /\ evaluated = << "structural parse" >>)
       /\ LastEvaluated = "structural parse" <=> Len(token) < 3

C7_Witness ==
    /\ Returned
    /\ Len(token) = 2
    /\ token[2] # ""
    /\ ParseHeader(HeaderBytes(token).bytes).ok
    /\ ClaimsOf(token).ok
    /\ result = Err(MsgFormat, "InvalidToken")

\* the three malformations of C8
NoSeparator(tok) == Len(tok) = 1
HeaderNotBase64(tok) == ~HeaderBytes(tok).ok
PayloadNotMapping(tok) ==
    /\ Len(tok) >= 2
    /\ DecodeClaimsSegment(tok[2]).ok
    /\ DecodeClaimsSegment(tok[2]).bytes.kind # "object"

(* C8: an input with no separator or with a header segment that is not  *)
(* base64 is rejected as Malformed; an input whose payload bytes are not a *)
(* JSON mapping is rejected as Malformed too, or by the unsigned-token or  *)
(* symmetric-algorithm check when its header holds an HMAC algorithm (both *)
(* come before the claims decode).  No such input is accepted or rejected  *)
(* for claims read out of it.                                              *)
C8_MalformedRejected ==
    Returned =>
       /\ (NoSeparator(token) \/ HeaderNotBase64(token)) => Verdict = "Malformed"
       /\ PayloadNotMapping(token)
          => Verdict = IF header = "HS256" /\ ends_with_dot(token) THEN "UnsignedToken"
                       ELSE IF header \in HmacNames THEN "SymmetricAlgorithm"
                       ELSE "Malformed"

(* C9: a token whose header segment decodes to a JSON mapping (or to a     *)
(* JSON array, read by position) whose algorithm field is absent, or is a  *)
(* string that names no algorithm, is rejected as Malformed whatever its   *)
(* claims are.                                                             *)
C9_UnrecognizedAlgorithmRejected ==
    (/\ Returned
     /\ HeaderBytes(token).ok
     /\ HeaderBytes(token).bytes.kind \in { "object", "array" }
     /\ LET alg == AlgMember(HeaderBytes(token).bytes)
        IN  \/ alg.t = "absent"
            \/ alg.t = "str" /\ alg.s \notin (AlgorithmNames \cup NoneSpellings))
    => Verdict = "Malformed"

\* an unknown algorithm name before claims that would pass every check
C9_Witness ==
    /\ Returned
    /\ Len(token) = 3
    /\ URL_SAFE_NO_PAD_decode(token[1]).ok
    /\ HeaderBytes(token).bytes.kind = "object"
    /\ HeaderBytes(token).bytes.alg = JStr("XS999")
    /\ ClaimsOf(token).ok
    /\ ClaimsOf(token).claims = [exp |-> NoneInt, iss |-> SomeStr(LOKI_URL)]
    /\ token[3] = "c2ln"
    /\ result = Err(MsgFormat, "Json")

(* C10: each attack test calls create_session, then get_token, then        *)
(* validate_token, stops at the first that fails, and returns passed =     *)
(* TRUE exactly when the session was created, the token was obtained and   *)
(* validate_token returned an error, whatever the error.                   *)
C10_AttackTestPasses ==
    test \in AttackTests =>
       /\ token # NoToken => session_id.some
       /\ (evaluated # << >> \/ Returned) => token # NoToken
       /\ pc = "returned" =>
             /\ Len(results) = test
             /\ results[test].name = TestName(test)
             /\ results[test].passed <=>
                   (session_id.some /\ token # NoToken /\ result.tag = "Err")
             /\ ~results[test].passed =>
                   \/ ~session_id.some /\ token = NoToken /\ ~Returned
                   \/ session_id.some /\ token = NoToken /\ ~Returned
                   \/ session_id.some /\ token # NoToken /\ result.tag = "Ok"

\* the temporal-tampering test passes on a token rejected for its issuer
C10_Witness ==
    /\ test = 3
    /\ pc = "returned"
    /\ results[1].passed /\ ~results[2].passed
    /\ results[3].passed
    /\ Verdict = "UnexpectedIssuer"

===========================================================================
